---- MODULE Spec2Model ----
(***************************************************************************)
(* State-machine model of libs/deep_sort/track.py: one Track object, its   *)
(* counters, its three-state lifecycle and its feature cache.              *)
(*   Spec          arbitrary calls of predict, update, mark_missed, delete *)
(*   SpecProtocol  the tracker's steps: predict, then update or            *)
(*                 mark_missed, until the track is Deleted                 *)
(*   SpecAccess    the accessors to_tlwh, to_tlbr, is_tentative,           *)
(*                 is_confirmed and is_deleted among the mutating calls    *)
(***************************************************************************)
EXTENDS Integers, Sequences, FiniteSets, TLC

\* ---------------------------------------------------------------- bounds
\* n_init is drawn from 1..MaxNInit, max_age from 0..MaxMaxAge.
MaxNInit == 3
MaxMaxAge == 5
\* predict is called at most MaxPredict times, update at most MaxUpdate times.
MaxPredict == 6
MaxUpdate == 3
\* The accessors are exercised on means (x, y, a, h, 0, 0, 0, 0) with
\* x in -MaxCoord..MaxCoord, y in 0..MaxCoord, a in 0..MaxAspect and
\* h in 0..MaxHeight, and on tracks that made at most MaxAccessCalls
\* predict and update calls.
MaxCoord == 2
MaxAspect == 2
MaxHeight == 3
MaxAccessCalls == 1

\* ------------------------------------------------------------ TrackState
Tentative == 1
Confirmed == 2
Deleted == 3

\* Python's None (the default of the constructor's feature argument, and the
\* value of the bookkeeping variables before the first call).
None == "None"

\* ---------------------------------------------------------------- inputs
\* Feature vectors a detection can carry.
Features == {"f1", "f2"}

\* (mean, covariance) pairs the Kalman filter returns.  mean is
\* (x, y, a, h, vx, vy, va, vh).
Estimates ==
    { [mean |-> <<4, 6, 1, 2, 0, 0, 0, 0>>, covariance |-> "P1"],
      [mean |-> <<10, 8, 2, 4, 1, 0, 0, 0>>, covariance |-> "P2"] }

\* Detections passed to update: detection.to_xyah() and detection.feature.
Detections ==
    { [xyah |-> <<4, 6, 1, 2>>, feature |-> "f1"],
      [xyah |-> <<10, 8, 2, 4>>, feature |-> "f2"] }

\* The constructor's arguments other than n_init and max_age: the initial
\* estimate, the identity and the provenance of the track, and the optional
\* feature of the detection it originates from.
CtorArgs ==
    { [mean |-> <<4, 6, 1, 2, 0, 0, 0, 0>>, covariance |-> "P1",
       track_id |-> 1, det_confidence |-> 90, det_class |-> "face",
       det_best_bbox |-> <<3, 5, 5, 7>>, feature |-> "f1"],
      [mean |-> <<10, 8, 2, 4, 1, 0, 0, 0>>, covariance |-> "P2",
       track_id |-> 2, det_confidence |-> 55, det_class |-> "person",
       det_best_bbox |-> <<6, 4, 14, 12>>, feature |-> "f2"],
      [mean |-> <<10, 8, 2, 4, 1, 0, 0, 0>>, covariance |-> "P1",
       track_id |-> 3, det_confidence |-> 70, det_class |-> "face",
       det_best_bbox |-> <<6, 4, 14, 12>>, feature |-> None] }

\* ----------------------------------------------------------------- state
VARIABLES
    \* fields of the Track object
    mean, covariance, track_id, hits, age, time_since_update,
    det_confidence, det_class, det_best_bbox, state, features,
    n_init, max_age,
    \* bookkeeping of the calls made so far (not fields of the object)
    op,          \* the last call: "init", "predict", "update", "mark_missed", "delete"
    pre_state,   \* state just before the last call
    seed,        \* the constructor's feature argument
    kf_ret,      \* what the last Kalman filter call returned, or None
    detection,   \* the detection given to the last update, or None
    n_predict,   \* number of predict calls
    n_update,    \* number of update calls
    upd_run,     \* updates made so far when nothing but update was called, else -1
    miss_run,    \* completed predict+mark_missed cycles since an update left the
                 \* track Confirmed, with no other call in between; else -1
    half,        \* a predict of the current cycle is waiting for its mark_missed
    ret          \* the accessor called since the last mutating call and the
                 \* value it returned: [fn, value]; fn = "none" when none was

fields == <<mean, covariance, track_id, hits, age, time_since_update,
            det_confidence, det_class, det_best_bbox, state, features,
            n_init, max_age>>

history == <<op, pre_state, seed, kf_ret, detection, n_predict, n_update,
             upd_run, miss_run, half, ret>>

vars == <<fields, history>>

\* Fields only __init__ assigns.
fixed == <<track_id, det_confidence, det_class, det_best_bbox, n_init, max_age>>

\* No accessor called yet.
NoRet == [fn |-> "none", value |-> None]

\* ----------------------------------------------------------- constructor
InitNoSeed ==
    /\ \E orig \in CtorArgs :
         /\ mean = orig.mean
         /\ covariance = orig.covariance
         /\ track_id = orig.track_id
         /\ det_confidence = orig.det_confidence
         /\ det_class = orig.det_class
         /\ det_best_bbox = orig.det_best_bbox
         /\ seed = orig.feature
    /\ hits = 1
    /\ age = 1
    /\ time_since_update = 0
    /\ state = Tentative
    /\ features = <<>>
    /\ n_init \in 1..MaxNInit
    /\ max_age \in 0..MaxMaxAge
    /\ op = "init"
    /\ pre_state = None
    /\ kf_ret = None
    /\ detection = None
    /\ n_predict = 0
    /\ n_update = 0
    /\ upd_run = 0
    /\ miss_run = -1
    /\ half = FALSE
    /\ ret = NoRet

InitConfirmsIfReached ==
    /\ \E orig \in CtorArgs :
         /\ mean = orig.mean
         /\ covariance = orig.covariance
         /\ track_id = orig.track_id
         /\ det_confidence = orig.det_confidence
         /\ det_class = orig.det_class
         /\ det_best_bbox = orig.det_best_bbox
         /\ seed = orig.feature
    /\ hits = 1
    /\ age = 1
    /\ time_since_update = 0
    /\ features = (IF seed # None THEN <<seed>> ELSE <<>>)
    /\ n_init \in 1..MaxNInit
    /\ max_age \in 0..MaxMaxAge
    /\ state = (IF hits >= n_init THEN Confirmed ELSE Tentative)
    /\ op = "init"
    /\ pre_state = None
    /\ kf_ret = None
    /\ detection = None
    /\ n_predict = 0
    /\ n_update = 0
    /\ upd_run = 0
    /\ miss_run = -1
    /\ half = FALSE
    /\ ret = NoRet

Init ==
    /\ \E orig \in CtorArgs :
         /\ mean = orig.mean
         /\ covariance = orig.covariance
         /\ track_id = orig.track_id
         /\ det_confidence = orig.det_confidence
         /\ det_class = orig.det_class
         /\ det_best_bbox = orig.det_best_bbox
         /\ seed = orig.feature
    /\ hits = 1
    /\ age = 1
    /\ time_since_update = 0
    /\ state = Tentative
    /\ features = (IF seed # None THEN <<seed>> ELSE <<>>)
    /\ n_init \in 1..MaxNInit
    /\ max_age \in 0..MaxMaxAge
    /\ op = "init"
    /\ pre_state = None
    /\ kf_ret = None
    /\ detection = None
    /\ n_predict = 0
    /\ n_update = 0
    /\ upd_run = 0
    /\ miss_run = -1
    /\ half = FALSE
    /\ ret = NoRet

\* ---------------------------------------------------------- Kalman filter
\* kf.predict(mean, covariance) and kf.update(mean, covariance, z): the filter
\* is an argument of the call; all that is known of it is that it returns a
\* (mean, covariance) pair.
KfPredict(m, P) == Estimates

KfUpdate(m, P, z) == Estimates

\* ---------------------------------------------------------------- predict
predictNoAge ==
    /\ n_predict < MaxPredict
    /\ \E out \in KfPredict(mean, covariance) :
         /\ mean' = out.mean
         /\ covariance' = out.covariance
         /\ kf_ret' = out
    /\ age' = age
    /\ time_since_update' = time_since_update + 1
    /\ UNCHANGED <<hits, state, features, fixed>>
    /\ op' = "predict"
    /\ pre_state' = state
    /\ n_predict' = n_predict + 1
    /\ upd_run' = -1
    /\ miss_run' = IF miss_run >= 0 /\ ~half THEN miss_run ELSE -1
    /\ half' = (miss_run >= 0 /\ ~half)
    /\ UNCHANGED <<seed, detection, n_update>>
    /\ ret' = NoRet

predictNoTsu ==
    /\ n_predict < MaxPredict
    /\ \E out \in KfPredict(mean, covariance) :
         /\ mean' = out.mean
         /\ covariance' = out.covariance
         /\ kf_ret' = out
    /\ age' = age + 1
    /\ UNCHANGED <<time_since_update, hits, state, features, fixed>>
    /\ op' = "predict"
    /\ pre_state' = state
    /\ n_predict' = n_predict + 1
    /\ upd_run' = -1
    /\ miss_run' = IF miss_run >= 0 /\ ~half THEN miss_run ELSE -1
    /\ half' = (miss_run >= 0 /\ ~half)
    /\ UNCHANGED <<seed, detection, n_update>>
    /\ ret' = NoRet

predictKeepsMean ==
    /\ n_predict < MaxPredict
    /\ \E out \in KfPredict(mean, covariance) :
         /\ UNCHANGED <<mean, covariance>>
         /\ kf_ret' = out
    /\ age' = age + 1
    /\ time_since_update' = time_since_update + 1
    /\ UNCHANGED <<hits, state, features, fixed>>
    /\ op' = "predict"
    /\ pre_state' = state
    /\ n_predict' = n_predict + 1
    /\ upd_run' = -1
    /\ miss_run' = IF miss_run >= 0 /\ ~half THEN miss_run ELSE -1
    /\ half' = (miss_run >= 0 /\ ~half)
    /\ UNCHANGED <<seed, detection, n_update>>
    /\ ret' = NoRet

predict ==
    /\ n_predict < MaxPredict
    /\ \E out \in KfPredict(mean, covariance) :
         /\ mean' = out.mean
         /\ covariance' = out.covariance
         /\ kf_ret' = out
    /\ age' = age + 1
    /\ time_since_update' = time_since_update + 1
    /\ UNCHANGED <<hits, state, features, fixed>>
    /\ op' = "predict"
    /\ pre_state' = state
    /\ n_predict' = n_predict + 1
    /\ upd_run' = -1
    /\ miss_run' = IF miss_run >= 0 /\ ~half THEN miss_run ELSE -1
    /\ half' = (miss_run >= 0 /\ ~half)
    /\ UNCHANGED <<seed, detection, n_update>>
    /\ ret' = NoRet

\* ----------------------------------------------------------------- update
\* The state update's result: line 182-183.
updateState(s, h) ==
    IF s = Tentative /\ h >= n_init THEN Confirmed ELSE s

updateBookkeeping(det, out) ==
    /\ kf_ret' = out
    /\ detection' = det
    /\ op' = "update"
    /\ pre_state' = state
    /\ n_update' = n_update + 1
    /\ upd_run' = IF upd_run >= 0 THEN upd_run + 1 ELSE -1
    /\ miss_run' = IF state' = Confirmed THEN 0 ELSE -1
    /\ half' = FALSE
    /\ UNCHANGED <<seed, n_predict>>
    /\ ret' = NoRet

updateConfirmsAny ==
    /\ n_update < MaxUpdate
    /\ \E det \in Detections :
         \E out \in KfUpdate(mean, covariance, det.xyah) :
            /\ mean' = out.mean
            /\ covariance' = out.covariance
            /\ features' = Append(features, det.feature)
            /\ hits' = hits + 1
            /\ time_since_update' = 0
            /\ state' = IF hits' >= n_init THEN Confirmed ELSE state
            /\ UNCHANGED <<age, fixed>>
            /\ updateBookkeeping(det, out)

updateStrict ==
    /\ n_update < MaxUpdate
    /\ \E det \in Detections :
         \E out \in KfUpdate(mean, covariance, det.xyah) :
            /\ mean' = out.mean
            /\ covariance' = out.covariance
            /\ features' = Append(features, det.feature)
            /\ hits' = hits + 1
            /\ time_since_update' = 0
            /\ state' = IF state = Tentative /\ hits' > n_init
                           THEN Confirmed ELSE state
            /\ UNCHANGED <<age, fixed>>
            /\ updateBookkeeping(det, out)

updatePrepends ==
    /\ n_update < MaxUpdate
    /\ \E det \in Detections :
         \E out \in KfUpdate(mean, covariance, det.xyah) :
            /\ mean' = out.mean
            /\ covariance' = out.covariance
            /\ features' = <<det.feature>> \o features
            /\ hits' = hits + 1
            /\ time_since_update' = 0
            /\ state' = updateState(state, hits')
            /\ UNCHANGED <<age, fixed>>
            /\ updateBookkeeping(det, out)

updateTracksBest ==
    /\ n_update < MaxUpdate
    /\ \E det \in Detections :
         \E out \in KfUpdate(mean, covariance, det.xyah) :
            /\ mean' = out.mean
            /\ covariance' = out.covariance
            /\ features' = Append(features, det.feature)
            /\ det_best_bbox' = det.xyah
            /\ hits' = hits + 1
            /\ time_since_update' = 0
            /\ state' = updateState(state, hits')
            /\ UNCHANGED <<age, track_id, det_confidence, det_class, n_init, max_age>>
            /\ updateBookkeeping(det, out)

update ==
    /\ n_update < MaxUpdate
    /\ \E det \in Detections :
         \E out \in KfUpdate(mean, covariance, det.xyah) :
            /\ mean' = out.mean
            /\ covariance' = out.covariance
            /\ features' = Append(features, det.feature)
            /\ hits' = hits + 1
            /\ time_since_update' = 0
            /\ state' = updateState(state, hits')
            /\ UNCHANGED <<age, fixed>>
            /\ updateBookkeeping(det, out)

\* ------------------------------------------------------------ mark_missed
missBookkeeping ==
    /\ op' = "mark_missed"
    /\ pre_state' = state
    /\ miss_run' = IF miss_run >= 0 /\ half THEN miss_run + 1 ELSE -1
    /\ half' = FALSE
    /\ upd_run' = -1
    /\ UNCHANGED <<seed, kf_ret, detection, n_predict, n_update>>
    /\ ret' = NoRet

mark_missedKeepsTentative ==
    /\ state' = IF state # Tentative /\ time_since_update > max_age
                   THEN Deleted ELSE state
    /\ UNCHANGED <<mean, covariance, hits, age, time_since_update, features, fixed>>
    /\ missBookkeeping

mark_missedRevives ==
    /\ state' = IF state = Tentative \/ time_since_update > max_age
                   THEN Deleted ELSE Confirmed
    /\ UNCHANGED <<mean, covariance, hits, age, time_since_update, features, fixed>>
    /\ missBookkeeping

mark_missedAtMaxAge ==
    /\ state' = IF state = Tentative THEN Deleted
                ELSE IF time_since_update >= max_age THEN Deleted
                ELSE state
    /\ UNCHANGED <<mean, covariance, hits, age, time_since_update, features, fixed>>
    /\ missBookkeeping

mark_missedCountsMiss ==
    /\ state' = IF state = Tentative THEN Deleted
                ELSE IF time_since_update > max_age THEN Deleted
                ELSE state
    /\ time_since_update' = time_since_update + 1
    /\ UNCHANGED <<mean, covariance, hits, age, features, fixed>>
    /\ missBookkeeping

mark_missedOffByOne ==
    /\ state' = IF state = Tentative THEN Deleted
                ELSE IF time_since_update > max_age + 1 THEN Deleted
                ELSE state
    /\ UNCHANGED <<mean, covariance, hits, age, time_since_update, features, fixed>>
    /\ missBookkeeping

mark_missed ==
    /\ state' = IF state = Tentative THEN Deleted
                ELSE IF time_since_update > max_age THEN Deleted
                ELSE state
    /\ UNCHANGED <<mean, covariance, hits, age, time_since_update, features, fixed>>
    /\ missBookkeeping

\* ----------------------------------------------------------------- delete
deleteSparesConfirmed ==
    /\ state' = IF state = Confirmed THEN Confirmed ELSE Deleted
    /\ UNCHANGED <<mean, covariance, hits, age, time_since_update, features, fixed>>
    /\ op' = "delete"
    /\ pre_state' = state
    /\ miss_run' = -1
    /\ half' = FALSE
    /\ upd_run' = -1
    /\ UNCHANGED <<seed, kf_ret, detection, n_predict, n_update>>
    /\ ret' = NoRet

delete ==
    /\ state' = Deleted
    /\ UNCHANGED <<mean, covariance, hits, age, time_since_update, features, fixed>>
    /\ op' = "delete"
    /\ pre_state' = state
    /\ miss_run' = -1
    /\ half' = FALSE
    /\ upd_run' = -1
    /\ UNCHANGED <<seed, kf_ret, detection, n_predict, n_update>>
    /\ ret' = NoRet

\* ------------------------------------------------------------ state queries
is_tentative == state = Tentative

is_confirmed == state = Confirmed

is_deleted == state = Deleted

\* -------------------------------------------------------------- accessors
\* to_tlwh halves widths and heights, so on integer means its results are
\* multiples of 1/2: the accessors' values are kept exactly, in units of
\* 1/Denominator (the value v is held as Denominator * v).
Denominator == 2

Fx(v) == Denominator * v

FxMul(x, y) == (x * y) \div Denominator

FxHalf(x) == x \div 2

to_tlwhNoWidth(m) ==
    LET ret0 == [i \in 1..4 |-> Fx(m[i])]
        ret2 == [ret0 EXCEPT ![1] = ret0[1] - FxHalf(ret0[3]),
                             ![2] = ret0[2] - FxHalf(ret0[4])]
    IN  ret2

\* ret = self.mean[:4].copy(); ret[2] *= ret[3]; ret[:2] -= ret[2:] / 2
to_tlwh(m) ==
    LET ret0 == [i \in 1..4 |-> Fx(m[i])]
        ret1 == [ret0 EXCEPT ![3] = FxMul(ret0[3], ret0[4])]
        ret2 == [ret1 EXCEPT ![1] = ret1[1] - FxHalf(ret1[3]),
                             ![2] = ret1[2] - FxHalf(ret1[4])]
    IN  ret2

\* ret = self.to_tlwh(); ret[2:] = ret[:2] + ret[2:]
to_tlbr(m) ==
    LET ret0 == to_tlwh(m)
    IN  [ret0 EXCEPT ![3] = ret0[1] + ret0[3], ![4] = ret0[2] + ret0[4]]

\* What a call of an accessor leaves alone besides the fields.
accessorBookkeeping ==
    UNCHANGED <<op, pre_state, seed, kf_ret, detection, n_predict, n_update,
                upd_run, miss_run, half>>

\* to_tlwh working on self.mean[:4] itself, a view, instead of a copy of it.
to_tlwh_callNoCopy ==
    /\ ret' = [fn |-> "to_tlwh", value |-> to_tlwh(mean)]
    /\ mean' = [i \in 1..8 |-> IF i <= 4 THEN to_tlwh(mean)[i] \div Denominator
                                         ELSE mean[i]]
    /\ UNCHANGED <<covariance, hits, age, time_since_update, state, features,
                   fixed>>
    /\ accessorBookkeeping

to_tlwh_call ==
    /\ ret' = [fn |-> "to_tlwh", value |-> to_tlwh(mean)]
    /\ UNCHANGED fields
    /\ accessorBookkeeping

to_tlbr_call ==
    /\ ret' = [fn |-> "to_tlbr", value |-> to_tlbr(mean)]
    /\ UNCHANGED fields
    /\ accessorBookkeeping

is_tentative_call ==
    /\ ret' = [fn |-> "is_tentative", value |-> is_tentative]
    /\ UNCHANGED fields
    /\ accessorBookkeeping

is_confirmed_call ==
    /\ ret' = [fn |-> "is_confirmed", value |-> is_confirmed]
    /\ UNCHANGED fields
    /\ accessorBookkeeping

is_deleted_call ==
    /\ ret' = [fn |-> "is_deleted", value |-> is_deleted]
    /\ UNCHANGED fields
    /\ accessorBookkeeping

\* Means with integer position, aspect ratio and height, at rest.
MeanDomain ==
    { <<x, y, a, h, 0, 0, 0, 0>> :
        x \in (0 - MaxCoord)..MaxCoord, y \in 0..MaxCoord,
        a \in 0..MaxAspect, h \in 0..MaxHeight }

\* A track constructed on a mean of MeanDomain.
InitAccess ==
    /\ \E orig \in CtorArgs :
         /\ mean \in MeanDomain
         /\ covariance = orig.covariance
         /\ track_id = orig.track_id
         /\ det_confidence = orig.det_confidence
         /\ det_class = orig.det_class
         /\ det_best_bbox = orig.det_best_bbox
         /\ seed = orig.feature
    /\ hits = 1
    /\ age = 1
    /\ time_since_update = 0
    /\ state = Tentative
    /\ features = (IF seed # None THEN <<seed>> ELSE <<>>)
    /\ n_init \in {1, 2}
    /\ max_age \in {0, 1}
    /\ op = "init"
    /\ pre_state = None
    /\ kf_ret = None
    /\ detection = None
    /\ n_predict = 0
    /\ n_update = 0
    /\ upd_run = 0
    /\ miss_run = -1
    /\ half = FALSE
    /\ ret = NoRet

access_predict ==
    /\ n_predict + n_update < MaxAccessCalls
    /\ predict

access_update ==
    /\ n_predict + n_update < MaxAccessCalls
    /\ update

NextAccess ==
    \/ to_tlwh_call
    \/ to_tlbr_call
    \/ is_tentative_call
    \/ is_confirmed_call
    \/ is_deleted_call
    \/ access_predict
    \/ access_update
    \/ mark_missed
    \/ delete

SpecAccess == InitAccess /\ [][NextAccess]_vars

\* ------------------------------------------------------------ specification
Next == predict \/ update \/ mark_missed \/ delete

Spec == Init /\ [][Next]_vars

\* ------------------------------------------------------- per-step protocol
\* The owning tracker's processing step: predict on every live track, then
\* update on a matched track or mark_missed on an unmatched one; a Deleted
\* track is removed from the collection and takes no further step.
step_predict ==
    /\ op # "predict"
    /\ state # Deleted
    /\ predict

step_update ==
    /\ op = "predict"
    /\ update

step_mark_missed ==
    /\ op = "predict"
    /\ mark_missed

NextProtocol == step_predict \/ step_update \/ step_mark_missed

SpecProtocol == Init /\ [][NextProtocol]_vars

\* ------------------------------------------------------------------ claims

\* C1: Deleted is terminal: once the track is Deleted, no call of update,
\* predict, mark_missed or delete changes state, whatever hits and n_init are.
C1_DeletedIsTerminal == [][state = Deleted => state' = Deleted]_vars

\* An update on a Deleted track that raised hits to n_init or beyond.
C1_Witness ==
    /\ op = "update"
    /\ pre_state = Deleted
    /\ hits >= n_init
    /\ state = Deleted

\* C2 as stated: a track that is not Deleted is Confirmed exactly when hits has
\* reached n_init, for every n_init including 1.
C2_ConfirmedIffHitsReachNInit ==
    state # Deleted => (state = Confirmed <=> hits >= n_init)

\* C2 as amended: a fresh track is Tentative, and a track that is not Deleted is
\* Confirmed exactly when an update has left hits >= n_init, that is when
\* hits >= n_init and hits >= 2; for n_init = 1 the track is Tentative at
\* construction and Confirmed by its first update.
C2_ConfirmedByUpdateReachingNInit ==
    /\ op = "init" => state = Tentative
    /\ state # Deleted => (state = Confirmed <=> (hits >= n_init /\ hits >= 2))

\* n_init = 1: the first update confirms the track, at hits = 2.
C2_Witness ==
    /\ n_init = 1
    /\ op = "update"
    /\ pre_state = Tentative
    /\ state = Confirmed
    /\ hits = 2

\* C3 as stated: hits >= 1 and age >= hits after any sequence of predict and
\* update calls.
C3_AgeAtLeastHits == hits >= 1 /\ age >= hits

\* C3 as amended: hits >= 1 and age >= 1 always, and age >= hits whenever at
\* least as many predict calls as update calls have been made.
C3_AgeAtLeastHitsWhenPredicted ==
    /\ hits >= 1
    /\ age >= 1
    /\ n_update <= n_predict => age >= hits

\* Two predicts and two updates: age = hits = 3.
C3_Witness ==
    /\ n_update = 2
    /\ n_predict = 2
    /\ hits = 3
    /\ age = 3

\* C4: mark_missed on a Tentative track leaves it Deleted, for every
\* time_since_update, max_age and n_init.
C4_MissDeletesTentative ==
    [][(op' = "mark_missed" /\ state = Tentative) => state' = Deleted]_vars

\* A Tentative track missed with time_since_update = 0 <= max_age.
C4_Witness ==
    /\ op = "mark_missed"
    /\ pre_state = Tentative
    /\ time_since_update = 0
    /\ state = Deleted

\* C5: mark_missed on a Confirmed track leaves it Deleted iff
\* time_since_update > max_age at the call, and Confirmed otherwise.
C5_MissDeletesConfirmedIffTooOld ==
    [][(op' = "mark_missed" /\ state = Confirmed) =>
          /\ state' = Deleted <=> time_since_update > max_age
          /\ time_since_update <= max_age => state' = Confirmed]_vars

\* A Confirmed track deleted by the first miss past max_age.
C5_Witness ==
    /\ op = "mark_missed"
    /\ pre_state = Confirmed
    /\ time_since_update = max_age + 1
    /\ state = Deleted

\* C6: with n_init = 3 and max_age = 5 the track is Confirmed after three
\* consecutive updates; and a Confirmed track with time_since_update = 0 is
\* still Confirmed after each of its first max_age consecutive
\* predict+mark_missed cycles and Deleted at cycle max_age + 1.
C6_SurvivesMaxAgeMisses ==
    /\ (n_init = 3 /\ max_age = 5 /\ upd_run = 3) => state = Confirmed
    /\ (miss_run >= 0 /\ ~half) =>
          /\ miss_run <= max_age => state = Confirmed
          /\ miss_run > max_age => state = Deleted

\* The scenario: three updates, then six predict+mark_missed cycles, the
\* sixth of which deleted the track.
C6_Witness ==
    /\ n_init = 3
    /\ max_age = 5
    /\ n_update = 3
    /\ miss_run = 6
    /\ ~half
    /\ op = "mark_missed"
    /\ pre_state = Confirmed
    /\ state = Deleted

\* C7: the only state changes are Tentative -> Confirmed, by update only, and
\* Tentative -> Deleted and Confirmed -> Deleted, by mark_missed or delete only;
\* the order Tentative < Confirmed < Deleted never decreases.
C7_OnlyForwardTransitions ==
    [][/\ state' >= state
       /\ state' # state =>
            \/ state = Tentative /\ state' = Confirmed /\ op' = "update"
            \/ state' = Deleted /\ op' \in {"mark_missed", "delete"}]_vars

\* delete retiring a Confirmed track.
C7_Witness ==
    /\ op = "delete"
    /\ pre_state = Confirmed
    /\ state = Deleted

\* C8: construction yields Tentative, hits = 1, age = 1, time_since_update = 0
\* and a feature cache holding exactly the initial feature when one is
\* supplied and empty otherwise.
C8_Construction ==
    op = "init" =>
        /\ state = Tentative
        /\ hits = 1
        /\ age = 1
        /\ time_since_update = 0
        /\ seed # None => features = <<seed>>
        /\ seed = None => features = <<>>

\* A track constructed with a feature and the largest n_init.
C8_Witness ==
    /\ op = "init"
    /\ seed = "f2"
    /\ features = <<"f2">>
    /\ n_init = MaxNInit

\* C9: predict, in every state, stores the filter's output in mean and
\* covariance, adds exactly 1 to age and to time_since_update, and leaves
\* state, hits and the feature cache unchanged.
C9_PredictEffect ==
    [][op' = "predict" =>
          /\ mean' = kf_ret'.mean
          /\ covariance' = kf_ret'.covariance
          /\ age' = age + 1
          /\ time_since_update' = time_since_update + 1
          /\ UNCHANGED <<state, hits, features>>]_vars

\* predict on a Deleted track whose estimate it replaced by a different one.
C9_Witness ==
    /\ op = "predict"
    /\ state = Deleted
    /\ age >= 3
    /\ time_since_update >= 2
    /\ mean = kf_ret.mean
    /\ mean # <<4, 6, 1, 2, 0, 0, 0, 0>>
    /\ seed = "f1"

\* C10: update, in every state, adds exactly 1 to hits, sets
\* time_since_update to 0, leaves age unchanged and appends exactly the
\* detection's feature at the end of the feature cache; so the cache length
\* is (1 if seeded at construction else 0) plus the number of update calls.
C10_UpdateEffect ==
    /\ [](Len(features) = (IF seed # None THEN 1 ELSE 0) + n_update)
    /\ [][op' = "update" =>
            /\ hits' = hits + 1
            /\ time_since_update' = 0
            /\ age' = age
            /\ features' = Append(features, detection'.feature)]_vars

\* An update on a Deleted track, after a predict, that appended a
\* feature different from the cache's first.
C10_Witness ==
    /\ op = "update"
    /\ pre_state = Deleted
    /\ Len(features) = 3
    /\ features[3] = detection.feature
    /\ features[3] # features[1]
    /\ age >= 2
    /\ time_since_update = 0

\* C11: delete sets state to Deleted from every state, whatever hits, age,
\* time_since_update, n_init and max_age are, and changes nothing else.
C11_DeleteEffect ==
    [][op' = "delete" =>
          /\ state' = Deleted
          /\ UNCHANGED <<mean, covariance, hits, age, time_since_update,
                         features, fixed>>]_vars

\* delete on a Confirmed track that mark_missed would have kept
\* (time_since_update <= max_age).
C11_Witness ==
    /\ op = "delete"
    /\ pre_state = Confirmed
    /\ time_since_update >= 1
    /\ time_since_update <= max_age
    /\ state = Deleted

\* C13: track_id, n_init, max_age, det_confidence, det_class and
\* det_best_bbox keep their construction values: no call changes them.
C13_ConstructionFieldsFixed ==
    [][/\ track_id' = track_id
       /\ n_init' = n_init
       /\ max_age' = max_age
       /\ det_confidence' = det_confidence
       /\ det_class' = det_class
       /\ det_best_bbox' = det_best_bbox]_vars

\* After predicts and updates the second constructor tuple's values are
\* still in place, though the last detection's box differs from them.
C13_Witness ==
    /\ op = "update"
    /\ n_predict >= 1
    /\ n_update >= 2
    /\ track_id = 2
    /\ det_confidence = 55
    /\ det_class = "person"
    /\ det_best_bbox = <<6, 4, 14, 12>>
    /\ detection.xyah # det_best_bbox

\* C17: in every state reachable by predict, update, mark_missed and delete
\* calls, 0 <= time_since_update <= age - 1.
C17_TimeSinceUpdateBounds ==
    /\ 0 <= time_since_update
    /\ time_since_update <= age - 1

\* An updated track whose later predicts brought time_since_update back up,
\* strictly below age - 1.
C17_Witness ==
    /\ n_update >= 1
    /\ n_predict >= 3
    /\ time_since_update = 2
    /\ age = 4

\* C18: a Confirmed track has hits >= n_init and hits >= 2, and the track
\* becomes Confirmed only inside update: never at construction nor through
\* predict, mark_missed or delete.
C18_ConfirmedOnlyByUpdate ==
    /\ [](state = Confirmed => (hits >= n_init /\ hits >= 2))
    /\ [](op = "init" => state # Confirmed)
    /\ [][(state' = Confirmed /\ state # Confirmed) => op' = "update"]_vars

\* n_init = 1: the track, Tentative through a predict, is confirmed by its
\* first update.
C18_Witness ==
    /\ n_init = 1
    /\ n_predict = 1
    /\ op = "update"
    /\ pre_state = Tentative
    /\ state = Confirmed
    /\ hits = 2

\* C20: mark_missed changes at most state (hits, age, time_since_update, the
\* feature cache, mean and covariance are unchanged), and a second
\* mark_missed right after a first leaves state as the first left it.
C20_MarkMissedFrameAndIdempotent ==
    [][op' = "mark_missed" =>
          /\ UNCHANGED <<mean, covariance, hits, age, time_since_update,
                         features>>
          /\ op = "mark_missed" => state' = state]_vars

\* A Confirmed track that a mark_missed at time_since_update = max_age left
\* Confirmed.
C20_Witness ==
    /\ op = "mark_missed"
    /\ pre_state = Confirmed
    /\ state = Confirmed
    /\ max_age >= 1
    /\ time_since_update = max_age
    /\ n_predict >= 1


\* C12: under the per-step protocol, a track missed at a step while its age
\* is at most n_init is Deleted at that step.
C12_MissWithinNInitFramesDeletes ==
    (op = "mark_missed" /\ age <= n_init) => state = Deleted

\* n_init = 3: the track, updated in its second frame and missed in its
\* third, is deleted.
C12_Witness ==
    /\ op = "mark_missed"
    /\ n_init = 3
    /\ age = 3
    /\ hits = 2
    /\ pre_state = Tentative
    /\ state = Deleted

\* C16: under the per-step protocol, age >= hits in every reachable state,
\* with age = 1 + number of predict calls and hits = 1 + number of update
\* calls.
C16_ProtocolAgeAtLeastHits ==
    /\ age >= hits
    /\ age = 1 + n_predict
    /\ hits = 1 + n_update

\* Four steps, two of them updates.
C16_Witness ==
    /\ n_predict = 4
    /\ n_update = 2
    /\ age = 5
    /\ hits = 3
    /\ op = "update"

\* C19: under the per-step protocol, a track that is not updated again is
\* Deleted within at most max_age + 1 further steps: a track that survives a
\* miss is a Confirmed track at its k-th consecutive miss since its last
\* update, with k <= max_age.
C19_DeletedWithinMaxAgePlusOneMisses ==
    op = "mark_missed" =>
        \/ state = Deleted
        \/ /\ pre_state = Confirmed
           /\ state = Confirmed
           /\ miss_run >= 1
           /\ miss_run <= max_age
           /\ miss_run = time_since_update

\* max_age = 3: a Confirmed track deleted at its fourth consecutive miss.
C19_Witness ==
    /\ op = "mark_missed"
    /\ max_age = 3
    /\ miss_run = 4
    /\ pre_state = Confirmed
    /\ state = Deleted


\* C14: on every mean of the integer domain, to_tlwh returns
\* (cx - w/2, cy - h/2, w, h) with w = aspect ratio * h, to_tlbr's min corner
\* is to_tlwh's top-left, and to_tlbr's max corner minus its min corner is
\* (w, h).  Values are in units of 1/Denominator.
C14_BoxAccessorsConsistent ==
    LET cx == mean[1]
        cy == mean[2]
        h == mean[4]
        w == mean[3] * h
        tlwh == to_tlwh(mean)
    IN  /\ ret.fn = "to_tlwh" =>
            /\ ret.value[1] = Denominator * cx - w
            /\ ret.value[2] = Denominator * cy - h
            /\ ret.value[3] = Denominator * w
            /\ ret.value[4] = Denominator * h
            /\ DOMAIN ret.value = 1..4
        /\ ret.fn = "to_tlbr" =>
            /\ ret.value[1] = tlwh[1]
            /\ ret.value[2] = tlwh[2]
            /\ ret.value[3] - ret.value[1] = tlwh[3]
            /\ ret.value[4] - ret.value[2] = tlwh[4]
            /\ ret.value[3] - ret.value[1] = Denominator * w
            /\ ret.value[4] - ret.value[2] = Denominator * h
            /\ DOMAIN ret.value = 1..4

\* mean (1, 2, 2, 3): w = 6, top-left (-2, 1/2), max corner (4, 7/2).
C14_Witness ==
    /\ ret.fn = "to_tlbr"
    /\ mean[1] = 1
    /\ mean[2] = 2
    /\ mean[3] = 2
    /\ mean[4] = 3
    /\ ret.value[1] = -4
    /\ ret.value[2] = 1
    /\ ret.value[3] = 8
    /\ ret.value[4] = 7

\* C15: to_tlwh, to_tlbr, is_tentative, is_confirmed and is_deleted leave
\* every field of the track unchanged, and in every reachable state exactly
\* one of is_tentative, is_confirmed, is_deleted is true.
C15_AccessorsReadOnly ==
    /\ [](Cardinality({q \in {"t", "c", "d"} :
                         \/ q = "t" /\ is_tentative
                         \/ q = "c" /\ is_confirmed
                         \/ q = "d" /\ is_deleted}) = 1)
    /\ [](/\ ret.fn = "is_tentative" => ret.value = (state = Tentative)
          /\ ret.fn = "is_confirmed" => ret.value = (state = Confirmed)
          /\ ret.fn = "is_deleted" => ret.value = (state = Deleted))
    /\ [][ret'.fn # "none" => UNCHANGED fields]_vars

\* is_confirmed answering TRUE on a track its first update confirmed.
C15_Witness ==
    /\ ret.fn = "is_confirmed"
    /\ ret.value = TRUE
    /\ state = Confirmed
    /\ n_update = 1
    /\ hits = 2


====
